---- MODULE Spec2Model ----
(***************************************************************************)
(* Movie Discovery Platform (src/app.js): the query/state-synchronisation  *)
(* core.  The module models the `state` object, the DOM elements the       *)
(* handlers write, the requests in flight on the network, the debounce     *)
(* timer of the search input and the position of init().                   *)
(*                                                                         *)
(* JavaScript runs every handler to completion (together with the          *)
(* microtasks it queues), so one action is one event-loop task: a DOM      *)
(* event, a timer callback, or the arrival of a fetch response.            *)
(***************************************************************************)
EXTENDS Integers, Sequences, FiniteSets, TLC

\* ------------------------------------------------------------------------
\* Bounds of the model
\* ------------------------------------------------------------------------

\* longest text typed into the search input
MaxLen == 2

\* highest page the model lets the user navigate to
MaxPage == 3

\* number of steps the quiet period is divided into when time advances
Granularity == 5

\* number of steps of time a timer whose delay has elapsed can be kept
\* waiting by a busy event loop
MaxLate == 1

\* how far to either side of a rating threshold the vote averages of the
\* rendered movies reach, in thousandths
RatingWindow == 3

\* ------------------------------------------------------------------------
\* Program constants
\* ------------------------------------------------------------------------

\* debounce(..., 500)
DELAY == 500

\* Math.min(..., 500)
MAX_TOTAL_PAGES == 500

\* data.total_pages || 1
DEFAULT_TOTAL_PAGES == 1

\* rating >= 7.5, in thousandths
GOOD_RATING == 7500

\* rating >= 6, in thousandths
MEDIUM_RATING == 6000

\* ------------------------------------------------------------------------
\* Input domains
\* ------------------------------------------------------------------------

\* An optional JavaScript value is a sequence: <<>> is undefined (the field is
\* missing from the response body), <<v>> is the value v.
Undefined == <<>>

\* characters of the search text: one whitespace and one non-whitespace
Chars == {" ", "a"}

RECURSIVE TextsOfLen(_)
TextsOfLen(n) ==
    IF n = 0 THEN {<<>>}
    ELSE {Append(t, c) : t \in TextsOfLen(n - 1), c \in Chars}

\* the values the search input can carry (strings as sequences of characters)
Texts == UNION {TextsOfLen(n) : n \in 0..MaxLen}

\* values of the category <select>; "upcoming" stands for any value the
\* switch of loadMovies does not recognise
Categories == {"trending", "popular", "top_rated", "upcoming"}

\* values of the genre <select>: "" is the "All Genres" option
GenreIds == {"", "28"}

\* total_pages values a response body can carry
TotalPagesReported == {Undefined, <<0>>, <<-1>>, <<2>>, <<10000>>}

\* a movie of a result page, as far as the cards show it
Movie(voteAverage) == [vote_average |-> voteAverage]

\* a result page of one movie, rated 7.2
OneMovie == <<Movie(<<7200>>)>>

\* data.results of a response body: missing, or an array of movies
ResultsReported == {Undefined, << <<>> >>, <<OneMovie>>}

\* non-2xx statuses
HttpStatuses == {401, 500}

\* messages of the errors fetch()/response.json() reject with, as pairs
\* <<text, status>> (status is 0 when the text carries none)
TransportMessages == {<<"", 0>>, <<"Failed to fetch", 0>>}

\* data.genres of a genre-list response
GenreLists == {<<>>, <<"28">>}

\* vote_average of a movie, in thousandths: missing, 0, the values around
\* the two thresholds, and the maximum.  A value half-way
\* between two tenths is left out: which way toFixed(1) rounds it depends on
\* its binary representation.
VoteAverages ==
    {Undefined, <<0>>, <<10000>>}
    \cup {<<v>> : v \in {x \in (MEDIUM_RATING - RatingWindow)..(MEDIUM_RATING + RatingWindow)
                                 \cup (GOOD_RATING - RatingWindow)..(GOOD_RATING + RatingWindow) :
                            x % 100 # 50}}

Min(a, b) == IF a <= b THEN a ELSE b

\* ------------------------------------------------------------------------
\* State
\* ------------------------------------------------------------------------

VARIABLES
    state,      \* the `state` object of app.js
    dom,        \* the DOM elements the handlers write
    net,        \* requests issued by fetch() and not yet answered, oldest first
    timers,     \* pending setTimeout timers of the debounced handleSearch
    token,      \* TRUE iff window.TMDB_TOKEN is truthy
    pc,         \* position of init(): "boot", "loadGenres" or "done"
    listening,  \* TRUE once initializeEventListeners has run
    evt,        \* the event-loop task that ran last (history)
    burst,      \* the last input event (history): its text, the time its
                \* timer has been pending, whether the timer is still
                \* pending, and whether it replaced a pending timer
    known,      \* TRUE once a movie fetch has succeeded (history)
    called,     \* TRUE once loadMovies has been called (history)
    cleared,    \* TRUE from a category change to the next input event (history)
    shown       \* data.results of the last successful movie response (history)

vars == <<state, dom, net, timers, token, pc, listening, evt, burst, known,
          called, cleared, shown>>

\* the part of the world the handlers of app.js read and write
World == [state |-> state, dom |-> dom, net |-> net, token |-> token]


\* ------------------------------------------------------------------------
\* Utility functions
\* ------------------------------------------------------------------------

IsWhitespace(c) == c = " "

RECURSIVE TrimStart(_)
TrimStart(t) ==
    IF t # <<>> /\ IsWhitespace(Head(t)) THEN TrimStart(Tail(t)) ELSE t

RECURSIVE TrimEnd(_)
TrimEnd(t) ==
    IF t # <<>> /\ IsWhitespace(t[Len(t)])
    THEN TrimEnd(SubSeq(t, 1, Len(t) - 1))
    ELSE t

\* String.prototype.trim
Trim(t) == TrimEnd(TrimStart(t))

\* x || d on an optional number: undefined and 0 are falsy
OrDefault(x, d) == IF x = Undefined \/ x[1] = 0 THEN d ELSE x[1]

\* messages are pairs <<text, status>>; status is 0 when the text carries none
TokenMessage == <<"TMDB API token not found. Please set window.TMDB_TOKEN", 0>>
ConfigMessage == <<"TMDB API token not configured. Please set window.TMDB_TOKEN in your browser console or configuration.", 0>>
FallbackMessage == <<"Failed to load movies. Please check your API token and try again.", 0>>
ApiErrorMessage(status) == <<"TMDB API Error", status>>

\* voteAverage.toFixed(1), as a number of tenths
ToFixed1(x) == (x + 50) \div 100

\* formatRating: the text of the rating badge
formatRating(voteAverage) ==
    IF voteAverage = Undefined \/ voteAverage[1] = 0
    THEN [na |-> TRUE, tenths |-> 0]
    ELSE [na |-> FALSE, tenths |-> ToFixed1(voteAverage[1])]

\* getRatingColor: undefined >= 7.5 and undefined >= 6 are both false
getRatingColor(rating) ==
    IF rating # Undefined /\ rating[1] >= GOOD_RATING THEN "text-green-400"
    ELSE IF rating # Undefined /\ rating[1] >= MEDIUM_RATING THEN "text-yellow-400"
    ELSE "text-red-400"

\* the rating badge of the card renderMovies builds for a movie
renderCard(movie) ==
    [rating |-> formatRating(movie.vote_average),
     ratingColor |-> getRatingColor(movie.vote_average)]

\* ------------------------------------------------------------------------
\* UI functions (each takes a world and returns the world it leaves)
\* ------------------------------------------------------------------------

showStatus(w, message, type) ==
    [w EXCEPT !.dom.statusBar = [hidden |-> FALSE, type |-> type, message |-> message]]

hideStatus(w) == [w EXCEPT !.dom.statusBar.hidden = TRUE]

renderSkeletons(w) == [w EXCEPT !.dom.moviesGrid = "skeletons", !.dom.cards = <<>>]

\* the grid gets the empty-state message, or one card per movie
renderMovies(w, movies) ==
    IF movies = Undefined \/ Len(movies[1]) = 0
    THEN [w EXCEPT !.dom.moviesGrid = "No movies found", !.dom.cards = <<>>]
    ELSE [w EXCEPT !.dom.moviesGrid = "movies",
                   !.dom.cards = [k \in 1..Len(movies[1]) |-> renderCard(movies[1][k])]]

\* fault: the next button is disabled past the last page only
updatePaginationUIPastLast(w) ==
    [w EXCEPT !.dom.pageInfo = <<w.state.currentPage, w.state.totalPages>>,
              !.dom.prevBtn = (w.state.currentPage = 1 \/ w.state.isLoading),
              !.dom.nextBtn = (w.state.currentPage > w.state.totalPages \/ w.state.isLoading)]

updatePaginationUI(w) ==
    [w EXCEPT !.dom.pageInfo = <<w.state.currentPage, w.state.totalPages>>,
              !.dom.prevBtn = (w.state.currentPage = 1 \/ w.state.isLoading),
              !.dom.nextBtn = (w.state.currentPage >= w.state.totalPages \/ w.state.isLoading)]


\* ------------------------------------------------------------------------
\* HTTP gateway
\* ------------------------------------------------------------------------

GenreEndpoint == "/genre/movie/list"

NoParams == [k \in {} |-> 0]

\* fault: the token check is missing
fetchFromTMDBNeverThrows(w) == FALSE

\* fetchFromTMDB throws before any network I/O when the token is falsy
fetchFromTMDBThrows(w) == ~w.token

\* fetch(url, ...): the request is on the network until it is answered
fetchFromTMDB(w, endpoint, params) ==
    [w EXCEPT !.net = Append(@, [endpoint |-> endpoint, params |-> params])]

\* What the awaited fetchFromTMDB call settles with, given what came back:
\* a 2xx response with a JSON body, a non-2xx response, or a rejection of
\* fetch()/response.json().
fetchFromTMDBSettle(outcome) ==
    CASE outcome.kind = "ok" -> [ok |-> TRUE, data |-> outcome.body]
      [] outcome.kind = "http" -> [ok |-> FALSE, message |-> ApiErrorMessage(outcome.status)]
      [] OTHER -> [ok |-> FALSE, message |-> outcome.message]

MovieOutcomes ==
    {[kind |-> "ok", body |-> [total_pages |-> t, results |-> <<OneMovie>>]] : t \in TotalPagesReported}
    \cup {[kind |-> "ok", body |-> [total_pages |-> <<2>>, results |-> r]] : r \in ResultsReported}
    \cup {[kind |-> "http", status |-> s] : s \in HttpStatuses}
    \cup {[kind |-> "transport", message |-> m] : m \in TransportMessages}

GenreOutcomes ==
    {[kind |-> "ok", body |-> [genres |-> g]] : g \in GenreLists}
    \cup {[kind |-> "http", status |-> s] : s \in HttpStatuses}
    \cup {[kind |-> "transport", message |-> m] : m \in TransportMessages}

RemoveAt(q, i) == SubSeq(q, 1, i - 1) \o SubSeq(q, i + 1, Len(q))

\* ------------------------------------------------------------------------
\* Data loading functions
\* ------------------------------------------------------------------------

\* loadGenres up to its await
loadGenres(w) ==
    IF fetchFromTMDBThrows(w) THEN w
    ELSE fetchFromTMDB(w, GenreEndpoint, NoParams)

\* loadGenres after its await
loadGenresResume(w, settled) ==
    IF settled.ok
    THEN [w EXCEPT !.state.genres = settled.data.genres,
                   !.dom.genreSelect = <<"">> \o settled.data.genres]
    ELSE w

\* fault: the category switch is consulted before the search query
EndpointCategoryFirst(st) ==
    CASE st.currentCategory = "popular" -> "/movie/popular"
      [] st.currentCategory = "top_rated" -> "/movie/top_rated"
      [] st.searchQuery # <<>> -> "/search/movie"
      [] OTHER -> "/trending/movie/week"

\* the endpoint loadMovies derives from the state
Endpoint(st) ==
    IF st.searchQuery # <<>> THEN "/search/movie"
    ELSE CASE st.currentCategory = "trending" -> "/trending/movie/week"
           [] st.currentCategory = "popular" -> "/movie/popular"
           [] st.currentCategory = "top_rated" -> "/movie/top_rated"
           [] OTHER -> "/trending/movie/week"

\* the params object loadMovies derives from the state
Params(st) ==
    LET p1 == [page |-> st.currentPage]
        p2 == IF st.searchQuery # <<>> THEN p1 @@ ("query" :> st.searchQuery) ELSE p1
    IN IF st.selectedGenre # "" THEN p2 @@ ("with_genres" :> st.selectedGenre) ELSE p2

\* fault: the catch block leaves the grid as it is
loadMoviesCatchKeepsGrid(w, message) ==
    showStatus(w, IF message[1] # "" THEN message ELSE FallbackMessage, "error")

\* the catch block of loadMovies
loadMoviesCatch(w, message) ==
    LET text == IF message[1] # "" THEN message ELSE FallbackMessage
    IN [showStatus(w, text, "error") EXCEPT !.dom.moviesGrid = "", !.dom.cards = <<>>]

\* the finally block of loadMovies
loadMoviesFinally(w) == updatePaginationUI([w EXCEPT !.state.isLoading = FALSE])

\* fault: no guard
loadMoviesGuardOff(w) == TRUE

\* the guard of loadMovies
loadMoviesGuard(w) == ~w.state.isLoading

\* loadMovies up to its await; a throw of fetchFromTMDB is caught in the
\* microtask that follows, before any other event is handled
loadMovies(w) ==
    IF ~loadMoviesGuard(w) THEN w
    ELSE LET w1 == updatePaginationUI(hideStatus(renderSkeletons(
                       [w EXCEPT !.state.isLoading = TRUE])))
         IN IF fetchFromTMDBThrows(w1)
            THEN loadMoviesFinally(loadMoviesCatch(w1, TokenMessage))
            ELSE fetchFromTMDB(w1, Endpoint(w1.state), Params(w1.state))

\* the total-pages value loadMovies stores
StoredTotalPages(total_pages) ==
    Min(OrDefault(total_pages, DEFAULT_TOTAL_PAGES), MAX_TOTAL_PAGES)

\* fault: isLoading is cleared on the success path only
loadMoviesResumeNoFinally(w, settled) ==
    IF settled.ok
    THEN LET w1 == [w EXCEPT !.state.totalPages = StoredTotalPages(settled.data.total_pages)]
         IN loadMoviesFinally(updatePaginationUI(renderMovies(w1, settled.data.results)))
    ELSE loadMoviesCatch(w, settled.message)

\* loadMovies after its await
loadMoviesResume(w, settled) ==
    IF settled.ok
    THEN LET w1 == [w EXCEPT !.state.totalPages = StoredTotalPages(settled.data.total_pages)]
         IN loadMoviesFinally(updatePaginationUI(renderMovies(w1, settled.data.results)))
    ELSE loadMoviesFinally(loadMoviesCatch(w, settled.message))

\* ------------------------------------------------------------------------
\* Handlers
\* ------------------------------------------------------------------------

\* the function debounce wraps: handleSearch's callback
handleSearch(w, query) ==
    loadMovies([w EXCEPT !.state.searchQuery = Trim(query),
                         !.state.currentPage = 1])

\* fault: the search text is kept
handleCategoryChangeKeepsQuery(w, category) ==
    loadMovies([w EXCEPT !.state.currentCategory = category,
                         !.state.currentPage = 1,
                         !.dom.searchInput = <<>>])

handleCategoryChange(w, category) ==
    loadMovies([w EXCEPT !.state.currentCategory = category,
                         !.state.searchQuery = <<>>,
                         !.state.currentPage = 1,
                         !.dom.searchInput = <<>>])

\* fault: the page is not reset
handleGenreChangeKeepsPage(w, genreId) ==
    loadMovies([w EXCEPT !.state.selectedGenre = genreId])

handleGenreChange(w, genreId) ==
    loadMovies([w EXCEPT !.state.selectedGenre = genreId,
                         !.state.currentPage = 1])

\* fault: next is bounded by <= instead of <
goToPageOffByOne(w, direction) ==
    IF direction = "next" /\ w.state.currentPage <= w.state.totalPages
    THEN loadMovies([w EXCEPT !.state.currentPage = @ + 1])
    ELSE IF direction = "prev" /\ w.state.currentPage > 1
    THEN loadMovies([w EXCEPT !.state.currentPage = @ - 1])
    ELSE w

goToPage(w, direction) ==
    IF direction = "next" /\ w.state.currentPage < w.state.totalPages
    THEN loadMovies([w EXCEPT !.state.currentPage = @ + 1])
    ELSE IF direction = "prev" /\ w.state.currentPage > 1
    THEN loadMovies([w EXCEPT !.state.currentPage = @ - 1])
    ELSE w

\* fault: the pending timer is not cleared
debounceNoClear(ts, args, delay) == ts \cup {[due |-> delay, args |-> args]}

\* the function debounce returns, called with args: clearTimeout of the
\* pending timer, then setTimeout(func, delay)
debounce(ts, args, delay) == {[due |-> delay, args |-> args]}


\* ------------------------------------------------------------------------
\* Initial state: the script has been evaluated, init() has not run yet
\* ------------------------------------------------------------------------

InitialState ==
    [currentCategory |-> "trending",
     currentPage |-> 1,
     totalPages |-> 1,
     searchQuery |-> <<>>,
     selectedGenre |-> "",
     genres |-> <<>>,
     isLoading |-> FALSE]

\* The elements as the page declares them before any handler has written
\* them.  Whether the page declares the two buttons disabled is left open.
InitialDoms ==
    {[statusBar |-> [hidden |-> TRUE, type |-> "info", message |-> <<"", 0>>],
      moviesGrid |-> "",
      cards |-> <<>>,
      pageInfo |-> <<1, 1>>,
      prevBtn |-> p,
      nextBtn |-> n,
      searchInput |-> <<>>,
      genreSelect |-> <<"">>] : p \in BOOLEAN, n \in BOOLEAN}

Init ==
    /\ state = InitialState
    /\ dom \in InitialDoms
    /\ net = <<>>
    /\ timers = {}
    /\ token \in BOOLEAN
    /\ pc = "boot"
    /\ listening = FALSE
    /\ evt = [name |-> "load", arg |-> 0]
    /\ burst = [pending |-> FALSE, text |-> <<>>, since |-> 0, restarted |-> FALSE]
    /\ known = FALSE
    /\ called = FALSE
    /\ cleared = FALSE
    /\ shown = <<>>

\* ------------------------------------------------------------------------
\* Actions: one per event-loop task
\* ------------------------------------------------------------------------

\* the world w is what the task leaves behind
Leaves(w) ==
    /\ state' = w.state
    /\ dom' = w.dom
    /\ net' = w.net
    /\ token' = w.token

\* length of one step of time
Tick == DELAY \div Granularity

\* the delay of a timer has elapsed: its callback is queued, and runs when the
\* event loop gets to it
TimerDue == \E t \in timers : t.due <= 0

\* what evt keeps of a response: its kind and its status (0 when it has none)
Summary(outcome) ==
    [kind |-> outcome.kind,
     status |-> IF outcome.kind = "http" THEN outcome.status ELSE 0]

\* init(), run on DOMContentLoaded; it stops at the await of loadGenres
init ==
    /\ pc = "boot"
    /\ evt' = [name |-> "init", arg |-> token]
    /\ IF ~token
       THEN /\ Leaves(showStatus(World, ConfigMessage, "error"))
            /\ pc' = "done"
            /\ UNCHANGED listening
       ELSE /\ listening' = TRUE
            /\ Leaves(loadGenres(World))
            /\ pc' = "loadGenres"
    /\ UNCHANGED <<timers, burst, known, called, cleared, shown>>

\* fault: a failure of the genre list is shown and stops init
GenresResponseFatal(i, outcome) ==
    /\ pc = "loadGenres"
    /\ net[i].endpoint = GenreEndpoint
    /\ LET w0 == [World EXCEPT !.net = RemoveAt(@, i)]
           settled == fetchFromTMDBSettle(outcome)
       IN IF settled.ok
          THEN Leaves(loadMovies(loadGenresResume(w0, settled)))
          ELSE Leaves(showStatus(w0, settled.message, "error"))
    /\ pc' = "done"
    /\ evt' = [name |-> "genresResponse", arg |-> Summary(outcome)]
    /\ called' = TRUE
    /\ UNCHANGED <<timers, listening, burst, known, cleared, shown>>

\* the genre list request is answered: loadGenres finishes and init goes on
\* to loadMovies
GenresResponse(i, outcome) ==
    /\ pc = "loadGenres"
    /\ net[i].endpoint = GenreEndpoint
    /\ LET w0 == [World EXCEPT !.net = RemoveAt(@, i)]
           w1 == loadGenresResume(w0, fetchFromTMDBSettle(outcome))
       IN Leaves(loadMovies(w1))
    /\ pc' = "done"
    /\ evt' = [name |-> "genresResponse", arg |-> Summary(outcome)]
    /\ called' = TRUE
    /\ UNCHANGED <<timers, listening, burst, known, cleared, shown>>

\* fault: a failure also puts totalPages back to its default
MoviesResponseResets(i, outcome) ==
    /\ net[i].endpoint # GenreEndpoint
    /\ LET w0 == [World EXCEPT !.net = RemoveAt(@, i)]
           w1 == loadMoviesResume(w0, fetchFromTMDBSettle(outcome))
       IN Leaves(IF outcome.kind = "ok" THEN w1
                 ELSE updatePaginationUI([w1 EXCEPT !.state.totalPages = DEFAULT_TOTAL_PAGES]))
    /\ known' = (known \/ outcome.kind = "ok")
    /\ evt' = [name |-> "moviesResponse", arg |-> Summary(outcome)]
    /\ shown' = IF outcome.kind = "ok"
                THEN (IF outcome.body.results = Undefined THEN <<>> ELSE outcome.body.results[1])
                ELSE shown
    /\ UNCHANGED <<timers, pc, listening, burst, called, cleared>>

\* a movie page request is answered: loadMovies runs from its await to its end
MoviesResponse(i, outcome) ==
    /\ net[i].endpoint # GenreEndpoint
    /\ LET w0 == [World EXCEPT !.net = RemoveAt(@, i)]
       IN Leaves(loadMoviesResume(w0, fetchFromTMDBSettle(outcome)))
    /\ known' = (known \/ outcome.kind = "ok")
    /\ evt' = [name |-> "moviesResponse", arg |-> Summary(outcome)]
    /\ shown' = IF outcome.kind = "ok"
                THEN (IF outcome.body.results = Undefined THEN <<>> ELSE outcome.body.results[1])
                ELSE shown
    /\ UNCHANGED <<timers, pc, listening, burst, called, cleared>>

\* 'input' event of the search input: the element has the text typed, and
\* the debounced handleSearch is called when the listener is installed
Input(text) ==
    /\ dom' = [dom EXCEPT !.searchInput = text]
    /\ evt' = [name |-> "input", arg |-> text]
    /\ IF listening
       THEN /\ timers' = debounce(timers, text, DELAY)
            /\ burst' = [pending |-> TRUE, text |-> text, since |-> 0,
                         restarted |-> timers # {}]
            /\ cleared' = FALSE
       ELSE UNCHANGED <<timers, burst, cleared>>
    /\ UNCHANGED <<state, net, token, pc, listening, known, called, shown>>

\* the callback of a debounce timer whose delay has elapsed runs:
\* handleSearch's callback, with the timer's args
Timeout(t) ==
    /\ t \in timers
    /\ t.due <= 0
    /\ timers' = timers \ {t}
    /\ Leaves(handleSearch(World, t.args))
    /\ evt' = [name |-> "searchIntent", arg |-> t.args]
    /\ burst' = [burst EXCEPT !.pending = FALSE]
    /\ called' = TRUE
    /\ UNCHANGED <<pc, listening, known, cleared, shown>>

\* time passes: one tick, or less when the delay of a timer elapses before
\* that; a timer whose delay has elapsed waits MaxLate ticks at most
Advance(tick) ==
    /\ timers # {}
    /\ \A t \in timers : t.due > -(MaxLate * tick)
    /\ LET d == IF TimerDue THEN tick
                ELSE CHOOSE d \in 1..tick :
                        /\ \A t \in timers : d <= t.due
                        /\ d = tick \/ \E t \in timers : d = t.due
       IN /\ timers' = {[t EXCEPT !.due = @ - d] : t \in timers}
          /\ burst' = [burst EXCEPT !.since = @ + d]
          /\ evt' = [name |-> "advance", arg |-> d]
    /\ UNCHANGED <<state, dom, net, token, pc, listening, known, called, cleared, shown>>

\* 'change' event of the category select
CategoryChange(category) ==
    /\ listening
    /\ Leaves(handleCategoryChange(World, category))
    /\ evt' = [name |-> "categoryChange", arg |-> category]
    /\ called' = TRUE
    /\ cleared' = TRUE
    /\ UNCHANGED <<timers, pc, listening, burst, known, shown>>

\* 'change' event of the genre select, to one of its options
GenreChange(genreId) ==
    /\ listening
    /\ \E k \in 1..Len(dom.genreSelect) : dom.genreSelect[k] = genreId
    /\ Leaves(handleGenreChange(World, genreId))
    /\ evt' = [name |-> "genreChange", arg |-> genreId]
    /\ called' = TRUE
    /\ UNCHANGED <<timers, pc, listening, burst, known, cleared, shown>>

\* 'click' event of the next button; a disabled button dispatches no click
ClickNext ==
    /\ listening
    /\ ~dom.nextBtn
    /\ state.currentPage < MaxPage
    /\ Leaves(goToPage(World, "next"))
    /\ evt' = [name |-> "click", arg |-> "next"]
    /\ called' = (called \/ state'.currentPage # state.currentPage)
    /\ UNCHANGED <<timers, pc, listening, burst, known, cleared, shown>>

\* 'click' event of the prev button
ClickPrev ==
    /\ listening
    /\ ~dom.prevBtn
    /\ Leaves(goToPage(World, "prev"))
    /\ evt' = [name |-> "click", arg |-> "prev"]
    /\ called' = (called \/ state'.currentPage # state.currentPage)
    /\ UNCHANGED <<timers, pc, listening, burst, known, cleared, shown>>

\* window.TMDB_TOKEN is assigned (from the console, as the README describes)
SetToken(v) ==
    /\ v # token
    /\ token' = v
    /\ evt' = [name |-> "setToken", arg |-> v]
    /\ UNCHANGED <<state, dom, net, timers, pc, listening, burst, known, called, cleared, shown>>

\* The tasks of the event loop, with the inputs drawn from the given sets.
NextOver(texts, categories, movieOutcomes, genreOutcomes, tick) ==
    \/ init
    \/ \E i \in 1..Len(net), o \in genreOutcomes : GenresResponse(i, o)
    \/ \E i \in 1..Len(net), o \in movieOutcomes : MoviesResponse(i, o)
    \/ \E text \in texts : Input(text)
    \/ \E t \in timers : Timeout(t)
    \/ Advance(tick)
    \/ \E c \in categories : CategoryChange(c)
    \/ \E g \in GenreIds : GenreChange(g)
    \/ ClickNext
    \/ ClickPrev

\* ---- browsing: every handler, a page count that grows and shrinks ----

BrowseTexts == {<<>>, <<"a">>}

BrowseCategories == {"trending", "popular"}

BrowseMovieOutcomes ==
    {[kind |-> "ok", body |-> [total_pages |-> t, results |-> <<OneMovie>>]] :
        t \in {Undefined, <<2>>, <<10000>>}}
    \cup {[kind |-> "http", status |-> 401]}

BrowseGenreOutcomes ==
    {[kind |-> "ok", body |-> [genres |-> <<"28">>]], [kind |-> "http", status |-> 401]}

Next == NextOver(BrowseTexts, BrowseCategories, BrowseMovieOutcomes, BrowseGenreOutcomes, DELAY)

Spec == Init /\ [][Next]_vars


\* ---- debounce: every text, time in ticks ----

DebounceCategories == {"popular"}

DebounceMovieOutcomes ==
    {[kind |-> "ok", body |-> [total_pages |-> <<2>>, results |-> <<OneMovie>>]]}

DebounceGenreOutcomes == {[kind |-> "http", status |-> 500]}

NextDebounce ==
    NextOver(Texts, DebounceCategories, DebounceMovieOutcomes, DebounceGenreOutcomes, Tick)

SpecDebounce == Init /\ [][NextDebounce]_vars

\* ---- credential: window.TMDB_TOKEN is set and cleared at any time ----

NextToken ==
    \/ NextOver({<<"a">>}, DebounceCategories, DebounceMovieOutcomes, BrowseGenreOutcomes, DELAY)
    \/ \E v \in BOOLEAN : SetToken(v)

SpecToken == Init /\ [][NextToken]_vars

\* ---- responses: every answer of the remote API ----

NextResponses ==
    NextOver({<<"a">>}, DebounceCategories, MovieOutcomes, GenreOutcomes, DELAY)

SpecResponses == Init /\ [][NextResponses]_vars

\* ---- requests: every category, with and without search text and genre ----

NextRequests ==
    NextOver(BrowseTexts, Categories, DebounceMovieOutcomes, BrowseGenreOutcomes, DELAY)

SpecRequests == Init /\ [][NextRequests]_vars

\* ---- fetch cycles: every movie request in flight is eventually answered ----

CycleMovieOutcomes ==
    {[kind |-> "ok", body |-> [total_pages |-> <<2>>, results |-> <<OneMovie>>]],
     [kind |-> "http", status |-> 401]}

NextCycle ==
    \/ NextOver({<<"a">>}, DebounceCategories, CycleMovieOutcomes, DebounceGenreOutcomes, DELAY)
    \/ \E v \in BOOLEAN : SetToken(v)

\* the remote call returns or fails
Answered == \E i \in 1..Len(net), o \in CycleMovieOutcomes : MoviesResponse(i, o)

SpecCycle == Init /\ [][NextCycle]_vars /\ WF_vars(Answered)

\* ---- rating badges: result pages of one movie, of every vote average ----

RatingMovieOutcomes ==
    {[kind |-> "ok", body |-> [total_pages |-> <<2>>, results |-> <<<<Movie(v)>>>>]] :
        v \in VoteAverages}

NextRating ==
    NextOver({<<"a">>}, DebounceCategories, RatingMovieOutcomes, DebounceGenreOutcomes, DELAY)

SpecRating == Init /\ [][NextRating]_vars

\* ------------------------------------------------------------------------
\* Properties
\* ------------------------------------------------------------------------

\* the movie page requests among the requests in flight
MovieRequests == {i \in 1..Len(net) : net[i].endpoint # GenreEndpoint}

\* the request loadMovies would derive from the state st
Request(st) == [endpoint |-> Endpoint(st), params |-> Params(st)]

\* the events that call loadMovies after changing the query
QueryEvents == {"searchIntent", "categoryChange", "genreChange"}

\* no request was issued by the step: net is as it was, or one answered
\* request shorter
NoRequestIssued == net' = net \/ \E i \in 1..Len(net) : net' = RemoveAt(net, i)

\* C1: at most one movie page fetch is in flight in every reachable state,
\* and a step taken while isLoading is true issues no request: the
\* loadMovies call of a triggering action is dropped, and the completion of
\* the fetch in flight starts no request on its behalf.
C1_SingleFlight ==
    /\ [](Cardinality(MovieRequests) <= 1)
    /\ [][state.isLoading => NoRequestIssued]_vars

\* C1 witness: a category change was handled while a fetch was in flight;
\* the state describes another request than the one in flight.
C1_Witness ==
    /\ evt.name = "categoryChange"
    /\ state.isLoading
    /\ \E i \in MovieRequests : net[i] # Request(state)

\* C2 (as claimed): when a movie fetch succeeds, the request it was issued
\* with is the request derived from the state at that moment.
C2_NoStaleResponse ==
    [][(evt'.name = "moviesResponse" /\ evt'.arg.kind = "ok")
        => \E i \in MovieRequests : net' = RemoveAt(net, i) /\ net[i] = Request(state')]_vars

\* C3 (as claimed): once a movie fetch has succeeded, currentPage <= totalPages.
C3_PageWithinTotal == known => state.currentPage <= state.totalPages

\* C4: a prev click on page 1 and a next click on the last page (or beyond)
\* change nothing of the state, the view or the network; any other click moves
\* currentPage by exactly one; and currentPage >= 1 in every reachable state.
C4_GoToPage ==
    /\ [](state.currentPage >= 1)
    /\ [][evt'.name = "click" =>
            IF evt'.arg = "next"
            THEN IF state.currentPage >= state.totalPages
                 THEN state' = state /\ dom' = dom /\ net' = net
                 ELSE state'.currentPage = state.currentPage + 1
            ELSE IF state.currentPage = 1
                 THEN state' = state /\ dom' = dom /\ net' = net
                 ELSE state'.currentPage = state.currentPage - 1]_vars

\* C4 witness: a next click was handled on the last page and started nothing.
C4_Witness ==
    /\ evt = [name |-> "click", arg |-> "next"]
    /\ state.currentPage >= state.totalPages
    /\ ~state.isLoading

\* C5: right after a search intent, a category change or a genre change,
\* currentPage is 1.
C5_PageReset == evt.name \in QueryEvents => state.currentPage = 1

\* C5 witness: a genre change was handled while the fetch of page 2 was in
\* flight, and currentPage is back to 1.
C5_Witness ==
    /\ evt.name = "genreChange"
    /\ state.isLoading
    /\ \E i \in MovieRequests : net[i].params.page = 2
    /\ state.currentPage = 1


\* r is t without its leading and trailing whitespace
IsTrimOf(r, t) ==
    /\ r # <<>> => ~IsWhitespace(r[1]) /\ ~IsWhitespace(r[Len(r)])
    /\ \E a \in 0..Len(t) :
        /\ a + Len(r) <= Len(t)
        /\ r = SubSeq(t, a + 1, a + Len(r))
        /\ \A k \in 1..Len(t) : (k <= a \/ k > a + Len(r)) => IsWhitespace(t[k])

\* C6 (as claimed): the debounced handler fires once per burst of input
\* events, exactly DELAY after the last one, with searchQuery set to that
\* event's text trimmed: while the last input event has not been followed by
\* its intent exactly one timer is pending, it carries that event's text and
\* its delay has not elapsed; once the intent has fired no timer is left; and
\* right after the intent, DELAY has passed since the input event and
\* searchQuery is its text without leading and trailing whitespace.
C6_Debounce ==
    /\ burst.pending =>
          /\ timers = {[due |-> DELAY - burst.since, args |-> burst.text]}
          /\ burst.since <= DELAY
    /\ ~burst.pending => timers = {}
    /\ evt.name = "searchIntent" =>
          /\ ~burst.pending
          /\ burst.since = DELAY
          /\ evt.arg = burst.text
          /\ IsTrimOf(state.searchQuery, burst.text)

\* C6 (amended): the debounced handler fires at most once per input event,
\* for the last input event only, and not before DELAY has passed since it:
\* while the last input event has not been followed by its intent exactly
\* one timer is pending, it carries that event's text and is due DELAY after
\* the event; once the intent has fired no timer is left; and right after
\* the intent, at least DELAY has passed since the input event and
\* searchQuery is its text without leading and trailing whitespace.
C6_DebounceAtLeast ==
    /\ burst.pending =>
          timers = {[due |-> DELAY - burst.since, args |-> burst.text]}
    /\ ~burst.pending => timers = {}
    /\ evt.name = "searchIntent" =>
          /\ ~burst.pending
          /\ burst.since >= DELAY
          /\ evt.arg = burst.text
          /\ IsTrimOf(state.searchQuery, burst.text)

\* C6 witness: an intent fired late, for an input event that had cancelled
\* the timer of an earlier one, and its text was trimmed to a non-empty query.
C6_Witness ==
    /\ evt.name = "searchIntent"
    /\ burst.restarted
    /\ burst.since > DELAY
    /\ state.searchQuery # <<>>
    /\ state.searchQuery # burst.text

\* the step called loadMovies
CallsLoadMovies ==
    \/ evt'.name \in QueryEvents
    \/ evt'.name = "genresResponse"
    \/ evt'.name = "click" /\ state'.currentPage # state.currentPage

\* C7 (as claimed): while window.TMDB_TOKEN is absent no request is issued;
\* init then shows the configuration error, installs no listener and starts
\* no fetch; and every loadMovies call ends, before the next event, with the
\* token error in the banner and isLoading false.
C7_NoTokenEveryCall ==
    /\ []((evt.name = "init" /\ evt.arg = FALSE) =>
            /\ dom.statusBar = [hidden |-> FALSE, type |-> "error", message |-> ConfigMessage]
            /\ net = <<>>
            /\ ~listening
            /\ pc = "done")
    /\ [][~token => NoRequestIssued]_vars
    /\ [][(~token /\ CallsLoadMovies) =>
            /\ ~state'.isLoading
            /\ dom'.statusBar = [hidden |-> FALSE, type |-> "error", message |-> TokenMessage]]_vars

\* C7 (amended): while window.TMDB_TOKEN is absent no request is issued; init
\* then shows the configuration error, installs no listener and starts no
\* fetch; and a loadMovies call made while no movie fetch is in flight
\* (isLoading false) ends, before the next event, with the token error in
\* the banner and isLoading false.
C7_NoToken ==
    /\ []((evt.name = "init" /\ evt.arg = FALSE) =>
            /\ dom.statusBar = [hidden |-> FALSE, type |-> "error", message |-> ConfigMessage]
            /\ net = <<>>
            /\ ~listening
            /\ pc = "done")
    /\ [][~token => NoRequestIssued]_vars
    /\ [][(~token /\ ~state.isLoading /\ CallsLoadMovies) =>
            /\ ~state'.isLoading
            /\ dom'.statusBar = [hidden |-> FALSE, type |-> "error", message |-> TokenMessage]]_vars

\* C7 witness: a category change was handled after the token had been
\* cleared; the banner shows the token error and nothing is in flight.
C7_Witness ==
    /\ evt.name = "categoryChange"
    /\ ~token
    /\ dom.statusBar = [hidden |-> FALSE, type |-> "error", message |-> TokenMessage]
    /\ ~state.isLoading
    /\ net = <<>>

\* C8: right after a movie fetch has failed with a non-2xx status, the banner
\* shows the error carrying that status, the grid is empty and isLoading is
\* false.
C8_HttpError ==
    (evt.name = "moviesResponse" /\ evt.arg.kind = "http") =>
        /\ dom.statusBar = [hidden |-> FALSE, type |-> "error",
                            message |-> <<"TMDB API Error", evt.arg.status>>]
        /\ dom.moviesGrid = ""
        /\ ~state.isLoading

\* C8 witness: a movie fetch was answered 401 after a page of movies had been
\* shown.
C8_Witness ==
    /\ evt.name = "moviesResponse"
    /\ evt.arg = [kind |-> "http", status |-> 401]
    /\ known
    /\ dom.statusBar.message = <<"TMDB API Error", 401>>

\* C9 (as claimed): the stored totalPages is between 1 and 500 whatever
\* total_pages the remote API reports.
C9_TotalPagesRange == 1 <= state.totalPages /\ state.totalPages <= 500

\* the endpoint the claim maps a category to
CategoryEndpoint(category) ==
    CASE category = "popular" -> "/movie/popular"
      [] category = "top_rated" -> "/movie/top_rated"
      [] OTHER -> "/trending/movie/week"

\* C10: every movie request loadMovies issues targets the search endpoint
\* with query = searchQuery when searchQuery is non-empty, whatever the
\* category, and otherwise the endpoint of currentCategory (trending for an
\* unrecognised one); it carries with_genres = selectedGenre exactly when
\* selectedGenre is non-empty, and page = currentPage.
C10_RequestDerivation ==
    [][(Len(net') > Len(net) /\ net'[Len(net')].endpoint # GenreEndpoint) =>
        LET r == net'[Len(net')]
            st == state'
        IN /\ st.searchQuery # <<>> =>
                 /\ r.endpoint = "/search/movie"
                 /\ "query" \in DOMAIN r.params
                 /\ r.params.query = st.searchQuery
           /\ st.searchQuery = <<>> => r.endpoint = CategoryEndpoint(st.currentCategory)
           /\ "with_genres" \in DOMAIN r.params <=> st.selectedGenre # ""
           /\ st.selectedGenre # "" => r.params.with_genres = st.selectedGenre
           /\ r.params.page = st.currentPage]_vars

\* C10 witness: a search intent issued a search request with a genre filter
\* while the category is one the switch does not recognise.
C10_Witness ==
    /\ evt.name = "searchIntent"
    /\ state.currentCategory = "upcoming"
    /\ \E i \in MovieRequests :
        /\ net[i].endpoint = "/search/movie"
        /\ net[i].params = [page |-> 1, query |-> <<"a">>, with_genres |-> "28"]


\* C11: isLoading is true exactly while one movie fetch is in flight, and
\* whenever isLoading is true it becomes false again, given that the remote
\* call is answered.
C11_FetchCycle ==
    /\ [](state.isLoading <=> Cardinality(MovieRequests) = 1)
    /\ (state.isLoading ~> ~state.isLoading)

\* C11 witness: a fetch cycle ended in failure: the request was answered 401
\* and the client is idle again.
C11_Witness ==
    /\ evt.name = "moviesResponse"
    /\ evt.arg = [kind |-> "http", status |-> 401]
    /\ ~state.isLoading
    /\ MovieRequests = {}


\* C12: once loadMovies has been called, in every state between events the
\* next button is disabled exactly when currentPage >= totalPages or
\* isLoading, and the prev button exactly when currentPage = 1 or isLoading.
C12_Buttons ==
    called =>
        /\ dom.nextBtn <=> (state.currentPage >= state.totalPages \/ state.isLoading)
        /\ dom.prevBtn <=> (state.currentPage = 1 \/ state.isLoading)

\* C12 witness: a genre change whose fetch was dropped reset the page while
\* the fetch of page 2 was in flight; both buttons are disabled.
C12_Witness ==
    /\ called
    /\ evt.name = "genreChange"
    /\ state.isLoading
    /\ \E i \in MovieRequests : net[i].params.page = 2 /\ net[i] # Request(state)
    /\ dom.nextBtn
    /\ dom.prevBtn


BandColours == {"text-green-400", "text-yellow-400", "text-red-400"}

\* C14 (as claimed): a vote average >= 7.5 gets the green band, one >= 6.0
\* and < 7.5 the yellow band, one < 6.0 the red band, and an absent one is
\* shown as N/A in none of the three band colours.
C14_RatingBands ==
    dom.moviesGrid = "movies" =>
        /\ Len(dom.cards) = Len(shown)
        /\ \A k \in 1..Len(dom.cards) :
            LET c == dom.cards[k]
                v == shown[k].vote_average
            IN IF v = Undefined
               THEN c.rating.na /\ c.ratingColor \notin BandColours
               ELSE /\ v[1] >= 7500 => c.ratingColor = "text-green-400"
                    /\ (v[1] >= 6000 /\ v[1] < 7500) => c.ratingColor = "text-yellow-400"
                    /\ v[1] < 6000 => c.ratingColor = "text-red-400"

\* C15: a category change leaves currentCategory at the chosen value and
\* searchQuery empty, and a request it issues is a request to the endpoint
\* of that category, without a query parameter.
C15_CategoryChange ==
    [][evt'.name = "categoryChange" =>
        /\ state'.currentCategory = evt'.arg
        /\ state'.searchQuery = <<>>
        /\ ~NoRequestIssued =>
              /\ net' = Append(net, Request(state'))
              /\ net'[Len(net')].endpoint = CategoryEndpoint(evt'.arg)
              /\ net'[Len(net')].endpoint # "/search/movie"
              /\ "query" \notin DOMAIN net'[Len(net')].params]_vars

\* C15 witness: after a search intent for "a" had been answered, a change to
\* top_rated issued a request to the top_rated endpoint.
C15_Witness ==
    /\ evt.name = "categoryChange"
    /\ evt.arg = "top_rated"
    /\ burst.text = <<"a">>
    /\ ~burst.pending
    /\ state.searchQuery = <<>>
    /\ \E i \in MovieRequests : net[i].endpoint = "/movie/top_rated"

\* the events in which a user action reaches loadMovies
UserEvents == QueryEvents \cup {"click"}

\* the error banner of loadMovies' catch block is on display: a movie fetch
\* has failed and loadMovies has not passed its guard since
FetchFailed == listening /\ ~state.isLoading /\ ~dom.statusBar.hidden

\* C16 (as claimed): after a movie fetch has failed, a step that issues a
\* request is the handling of a user action (search intent, category change,
\* genre change, next or prev).
C16_NoRetry == [][(FetchFailed /\ ~NoRequestIssued) => evt'.name \in UserEvents]_vars

\* C17: at most one debounce timer is pending in every reachable state; an
\* input event the listener handles leaves exactly the timer it scheduled, so the timer pending
\* before it is cancelled; and the timer that fires is the one of the last
\* input event, leaving none behind.
C17_OneTimer ==
    /\ [](Cardinality(timers) <= 1)
    /\ [][(evt'.name = "input" /\ listening) =>
            timers' = {[due |-> DELAY, args |-> evt'.arg]}]_vars
    /\ [][evt'.name = "searchIntent" =>
            /\ burst.pending
            /\ evt'.arg = burst.text
            /\ timers' = {}]_vars

\* C17 witness: an input event arrived while the timer of an earlier one was
\* pending, and its own timer is the only one pending.
C17_Witness ==
    /\ evt.name = "input"
    /\ burst.restarted
    /\ burst.since = 0
    /\ timers = {[due |-> DELAY, args |-> <<"a", " ">>]}

\* C18 (as claimed): from a category change until the next input event,
\* searchQuery is empty, so that a request derived from the state in that
\* period is not a search request.
C18_StaysCleared ==
    cleared => (state.searchQuery = <<>> /\ Request(state).endpoint # "/search/movie")

\* the query state
Query(st) == <<st.searchQuery, st.currentCategory, st.selectedGenre, st.currentPage>>

\* C19 (as claimed): a search intent, category change, genre change or click
\* handled while isLoading is true, whose loadMovies call is therefore
\* dropped, leaves the query state as it was.
C19_DroppedUnchanged ==
    [][(state.isLoading /\ evt'.name \in UserEvents) => Query(state') = Query(state)]_vars

\* C20 (as claimed): at most one request to the remote API, the genre list
\* request included, is in flight in every reachable state; in particular no
\* movie page request is in flight together with the genre list request.
C20_OneOutstanding == Len(net) <= 1

\* C21: the step in which a movie fetch fails (a non-2xx response, or a
\* rejection of fetch()/response.json()) changes no field of the state but
\* isLoading, which it leaves false: searchQuery, currentCategory,
\* selectedGenre, currentPage, totalPages and genres are as before, and so
\* are the options of the genre select.
C21_FailureFrame ==
    [][(evt'.name = "moviesResponse" /\ evt'.arg.kind # "ok") =>
        /\ state.isLoading
        /\ state' = [state EXCEPT !.isLoading = FALSE]
        /\ Query(state') = Query(state)
        /\ state'.totalPages = state.totalPages
        /\ state'.genres = state.genres
        /\ dom'.genreSelect = dom.genreSelect]_vars

\* C21 witness: the fetch of page 2 of a genre-filtered search was rejected;
\* the search text, the genre, the page, the page count and the genres
\* loaded at startup are in the state.
C21_Witness ==
    /\ evt.name = "moviesResponse"
    /\ evt.arg.kind = "transport"
    /\ ~state.isLoading
    /\ state.searchQuery = <<"a">>
    /\ state.selectedGenre = "28"
    /\ state.currentPage = 2
    /\ state.totalPages = 500
    /\ state.genres = <<"28">>

====
